---- MODULE Spec2Model ----
(***************************************************************************)
(* Bridge CLI acquisition and exit-code handling of the Black Duck         *)
(* Security Action.                                                        *)
(*                                                                         *)
(*   - resolve: the Bridge download decision flow (src/unnamed/part_005),  *)
(*     one leaf per subpath of the flow.                                   *)
(*   - run(): the action's main pipeline (src/test.ts), one action per     *)
(*     awaited step, with handleExitCode and the exit-code parsers.        *)
(***************************************************************************)
EXTENDS Integers, Sequences, FiniteSets, TLC

\* ------------------------------------------------------------------ bounds
NumVersions == 2
MaxExitCode == 10

\* an optional input: None when not provided, Some(x) when provided
None == {}
Some(x) == {x}
Opt(S) == {None} \cup {Some(x) : x \in S}
Versions == 1..NumVersions
\* a custom download URL: the bridge version its file name carries, if any
Urls == [version : Opt(Versions)]
WorkflowVersions == {1}
ExitCodes == (-1)..MaxExitCode

\* ------------------------------------------------------------ the request
AcquisitionRequest ==
    { r \in [airgapEnabled : BOOLEAN,
             thinClientEnabled : BOOLEAN,
             cached : BOOLEAN,
             cachedVersion : Opt(Versions),
             customUrl : Opt(Urls),
             requestedVersion : Opt(Versions),
             requestedWorkflowVersion : Opt(WorkflowVersions)] :
        r.cached <=> (r.cachedVersion # None) }

Skip == [kind |-> "Skip", version |-> None, url |-> None]
DownloadLatest == [kind |-> "DownloadLatest", version |-> None, url |-> None]
DownloadVersion(v) == [kind |-> "DownloadVersion", version |-> v, url |-> None]
DownloadFromCustomUrl(u, v) == [kind |-> "DownloadFromCustomUrl", version |-> v, url |-> u]
ErrorDecision == [kind |-> "Error", version |-> None, url |-> None]
NoDecision == [kind |-> "NoDecision", version |-> None, url |-> None]

\* the version in the file name of a custom URL, None when it names none
UrlVersion(u) == u.version
TheUrl(req) == CHOOSE u \in Urls : req.customUrl = Some(u)

\* downloadBridge's bridgeVersion: with a custom URL, the version in the URL
\* or, if (!bridgeVersion), the one getBridgeVersionFromLatestURL reads from
\* the versions.txt next to the bundle; any version can stand there
NeedsVersionsTxt(req) == req.customUrl # None /\ UrlVersion(TheUrl(req)) = None
BridgeVersionAtUrl(req) ==
    IF req.customUrl = None THEN {None}
    ELSE IF NeedsVersionsTxt(req) THEN {Some(v) : v \in Versions}
    ELSE {UrlVersion(TheUrl(req))}

\* "Download Bridge": custom URL if provided, else BD Repo, precedence to
\* the custom URL; the provided version if any, else latest
DownloadBridgeFrom(req) ==
    IF req.customUrl # None
    THEN DownloadFromCustomUrl(req.customUrl, req.requestedVersion)
    ELSE IF req.requestedVersion # None
         THEN DownloadVersion(req.requestedVersion)
         ELSE DownloadLatest

\* the version the cached one is compared with
TargetVersion(req, bridgeVersion) ==
    IF req.requestedVersion # None THEN req.requestedVersion
    ELSE IF req.customUrl # None THEN bridgeVersion
    ELSE None

C11_SkipIfSameVersion_mut(req, bridgeVersion) == Skip

\* "Skip download if same version exists, else download Bridge"
SkipIfSameVersion(req, bridgeVersion) ==
    IF req.cachedVersion = TargetVersion(req, bridgeVersion)
    THEN Skip
    ELSE DownloadBridgeFrom(req)

\* Subpaths x.y.2: "Is Bridge Cached? = Yes", the same in all four flows
CachedFlow(req, bridgeVersion) ==
    IF req.customUrl = None /\ req.requestedVersion = None
    THEN Skip
    ELSE SkipIfSameVersion(req, bridgeVersion)

\* Subpath 1.1: Thin Client (Non-Airgap)
ThinNonAirgapFlow(req, bridgeVersion) ==
    IF ~req.cached THEN DownloadBridgeFrom(req) ELSE CachedFlow(req, bridgeVersion)

\* Subpath 1.2: Thick Client (Non-Airgap)
ThickNonAirgapFlow(req, bridgeVersion) ==
    IF ~req.cached THEN DownloadBridgeFrom(req) ELSE CachedFlow(req, bridgeVersion)

\* Subpath 2.1: Thin Client (Airgap)
ThinAirgapFlow(req, bridgeVersion) ==
    IF ~req.cached
    THEN IF req.customUrl = None
         THEN ErrorDecision
         ELSE DownloadBridgeFrom(req)
    ELSE CachedFlow(req, bridgeVersion)

\* Subpath 2.2: Thick Client (Airgap)
ThickAirgapFlow(req, bridgeVersion) ==
    IF ~req.cached
    THEN IF req.customUrl = None
         THEN IF req.requestedVersion = None
              THEN DownloadLatest
              ELSE DownloadVersion(req.requestedVersion)
         ELSE DownloadBridgeFrom(req)
    ELSE CachedFlow(req, bridgeVersion)

C10_resolve_mut(req, bridgeVersion) ==
    IF req.cached /\ req.customUrl = None /\ req.requestedVersion = None
       /\ req.requestedWorkflowVersion # None
    THEN DownloadLatest
    ELSE IF ~req.airgapEnabled
         THEN IF req.thinClientEnabled THEN ThinNonAirgapFlow(req, bridgeVersion) ELSE ThickNonAirgapFlow(req, bridgeVersion)
         ELSE IF req.thinClientEnabled THEN ThinAirgapFlow(req, bridgeVersion) ELSE ThickAirgapFlow(req, bridgeVersion)

\* the decision flow: "Airgap Mode Enabled?", then "Thin Client or Thick Client?"
resolve(req, bridgeVersion) ==
    IF ~req.airgapEnabled
    THEN IF req.thinClientEnabled THEN ThinNonAirgapFlow(req, bridgeVersion) ELSE ThickNonAirgapFlow(req, bridgeVersion)
    ELSE IF req.thinClientEnabled THEN ThinAirgapFlow(req, bridgeVersion) ELSE ThickAirgapFlow(req, bridgeVersion)

\* ------------------------------------------------------- exit-code handling
BRIDGE_BREAK_EXIT_CODE == 8
BuildStatus == {"SUCCESS", "FAILURE", "UNSTABLE", "INVALID"}

\* the last character of a trimmed error message: Some(d) for a digit d,
\* None for any other character (or no message at all)
Digits == 0..9
LastChars == Opt(Digits)

Abs(n) == IF n < 0 THEN -n ELSE n
\* the message of the error a failed bridge process raises ends with the
\* decimal exit code, so its last character is the code's last digit
ExitCodeLastChar(code) == Some(Abs(code) % 10)

getBridgeExitCodeAsNumericValue(lastChar) ==
    IF lastChar = None THEN -1 ELSE CHOOSE d \in Digits : lastChar = Some(d)

getBridgeExitCode(lastChar) == lastChar # None

C4_handleExitCode_mut(exitCode, markBuildStatus) ==
    LET isPolicyViolation == exitCode = 8
        isSuccess == exitCode = 0
        isUnstableBreak == markBuildStatus = "UNSTABLE" /\ exitCode = BRIDGE_BREAK_EXIT_CODE
    IN  [isPolicyViolation |-> isPolicyViolation,
         message |-> IF isSuccess \/ isUnstableBreak THEN "completed"
                     ELSE IF isPolicyViolation THEN "policyViolationContinues"
                     ELSE "unknownExitCodeContinues",
         code |-> exitCode,
         throws |-> ~(isSuccess \/ isUnstableBreak)]

\* handleExitCode only logs: "completed" is the debug line, the other two
\* are the ::warning:: lines that end in "pipeline continues"; no branch throws
handleExitCode(exitCode, markBuildStatus) ==
    LET isPolicyViolation == exitCode = 8
        isSuccess == exitCode = 0 \/ markBuildStatus = "SUCCESS"
        isUnstableBreak == markBuildStatus = "UNSTABLE" /\ exitCode = BRIDGE_BREAK_EXIT_CODE
    IN  [isPolicyViolation |-> isPolicyViolation,
         message |-> IF isSuccess \/ isUnstableBreak THEN "completed"
                     ELSE IF isPolicyViolation THEN "policyViolationContinues"
                     ELSE "unknownExitCodeContinues",
         code |-> exitCode,
         throws |-> FALSE]

\* the entries of constants.EXIT_CODE_MAP the tests show: '8' is
\* 'Policy Violation Detected'
EXIT_CODE_MAP == {Some(BRIDGE_BREAK_EXIT_CODE)}

\* logBridgeExitCodes(message): 'Exit Code: <c> <description>' when the last
\* character of the message is a key of EXIT_CODE_MAP, else the message itself
logBridgeExitCodes(lastChar) ==
    IF lastChar \in EXIT_CODE_MAP THEN "exitCodeDescription" ELSE "errorMessage"

NoOutcome == [isPolicyViolation |-> FALSE, message |-> "none", code |-> 0, throws |-> FALSE]

\* ------------------------------------------------ platform selection
\* the bundle of a Bridge CLI version for the machine the integration runs on
MaxMajor == 3
MaxMinor == 6
MaxPatch == 1
\* a version string "major.minor.patch"
SemVers == (0..MaxMajor) \X (0..MaxMinor) \X (0..MaxPatch)
SemVer(t) == [kind |-> "semver", triple |-> t]
\* ApplicationConstants.BRIDGE_CLI_LATEST_VERSION
BRIDGE_CLI_LATEST_VERSION == [kind |-> "latest", triple |-> <<0, 0, 0>>]
\* getPlatform(null)
NullVersion == [kind |-> "null", triple |-> <<0, 0, 0>>]
RequestedVersions == {SemVer(t) : t \in SemVers} \cup {BRIDGE_CLI_LATEST_VERSION, NullVersion}

MAC_ARM_COMPATIBLE_BRIDGE_VERSION == <<2, 1, 0>>
LINUX_ARM_COMPATIBLE_BRIDGE_VERSION == <<2, 5, 0>>
MIN_SUPPORTED_BRIDGE_CLI_MAC_ARM_VERSION == MAC_ARM_COMPATIBLE_BRIDGE_VERSION
MIN_SUPPORTED_BRIDGE_CLI_LINUX_ARM_VERSION == LINUX_ARM_COMPATIBLE_BRIDGE_VERSION

\* semver.gte / Version.compareTo(...) >= 0 on three-part versions
gte(a, b) ==
    \/ a[1] > b[1]
    \/ a[1] = b[1] /\ a[2] > b[2]
    \/ a[1] = b[1] /\ a[2] = b[2] /\ a[3] >= b[3]

OsNames == {"mac", "linux", "windows"}
Integrations == {"github", "ado", "jenkins"}
\* the machine and the version asked for; only Jenkins passes 'latest' or
\* null to its platform selection, the others a version string
PlatformRequests ==
    {r \in [integration : Integrations, osName : OsNames, isARM : BOOLEAN,
            version : RequestedVersions] :
        r.integration # "jenkins" => r.version.kind = "semver"}

\* GitHub Action: Bridge.getVersionUrl, the platform it puts into the URL
githubGetVersionUrl(osName, isARM, version) ==
    IF osName = "mac"
    THEN IF isARM /\ gte(version.triple, MIN_SUPPORTED_BRIDGE_CLI_MAC_ARM_VERSION)
         THEN "macos_arm" ELSE "macosx"
    ELSE IF osName = "linux"
    THEN IF isARM THEN "linux_arm" ELSE "linux64"
    ELSE "win64"

\* ADO: getVersionUrl with its local getOsSuffix
getOsSuffix(isValidVersion, isIntel, intelSuffix, armSuffix) ==
    IF ~isValidVersion THEN intelSuffix
    ELSE IF isIntel THEN intelSuffix ELSE armSuffix

adoGetVersionUrl(osName, isARM, version) ==
    IF osName = "mac"
    THEN getOsSuffix(gte(version.triple, MIN_SUPPORTED_BRIDGE_CLI_MAC_ARM_VERSION),
                     ~isARM, "macosx", "macos_arm")
    ELSE IF osName = "linux"
    THEN getOsSuffix(gte(version.triple, MIN_SUPPORTED_BRIDGE_CLI_LINUX_ARM_VERSION),
                     ~isARM, "linux64", "linux_arm")
    ELSE "win64"

\* Jenkins: BridgeDownloadParametersService
isVersionCompatibleForARMChips(version, minCompatibleBridgeVersion) ==
    IF version = BRIDGE_CLI_LATEST_VERSION THEN TRUE
    ELSE gte(version.triple, minCompatibleBridgeVersion)

getPlatform(osName, isARM, version) ==
    IF osName = "windows" THEN "win64"
    ELSE IF osName = "mac"
    THEN IF version # NullVersion
             /\ ~isVersionCompatibleForARMChips(version, MAC_ARM_COMPATIBLE_BRIDGE_VERSION)
         THEN "macosx"
         ELSE IF isARM THEN "macos_arm" ELSE "macosx"
    ELSE IF version # NullVersion
             /\ ~isVersionCompatibleForARMChips(version, LINUX_ARM_COMPATIBLE_BRIDGE_VERSION)
         THEN "linux64"
         ELSE IF isARM THEN "linux_arm" ELSE "linux64"

SelectedPlatform(r) ==
    IF r.integration = "github" THEN githubGetVersionUrl(r.osName, r.isARM, r.version)
    ELSE IF r.integration = "ado" THEN adoGetVersionUrl(r.osName, r.isARM, r.version)
    ELSE getPlatform(r.osName, r.isARM, r.version)

\* no platform selection asked for
NoPlatform == [request |-> [integration |-> "github", osName |-> "windows", isARM |-> FALSE,
                            version |-> SemVer(<<0, 0, 0>>)],
               selected |-> "none"]

\* ------------------------------------------------ secure storage manager
\* One IndexedDB entry (STORAGE_KEY) shared by the tabs of an origin, one
\* SecureStorageManager with its AdvancedCrypto per page load, and the
\* 'secure_storage_sync' broadcast channel between them.  One storage key
\* is followed; lastAccess and the heartbeat, which only rewrite lastAccess,
\* are left out.  Time is counted in hours.
NumTabs == 2
NumKeys == 2
MaxTime == 9
MaxInbox == 1
EXPIRY_HOURS == 8
Tabs == 1..NumTabs
\* the AES keys initializeKey can derive: the key material contains Date.now()
KeyIds == 1..NumKeys
\* the values set() is given: 0 stands for the falsy ones (0, false, '')
Values == {0, 1}
Truthy(data) == data # None /\ data # Some(0)

\* a page's manager as constructed: cache = {}, no key, isInitialized = false
NewTab == [isInitialized |-> FALSE, cache |-> None, key |-> None]
NoCall == [op |-> "none", tab |-> 0, value |-> None]
StorageInit ==
    [now |-> 0,
     db |-> None,
     tabs |-> [t \in Tabs |-> NewTab],
     inbox |-> [t \in Tabs |-> <<>>],
     \* history: the last set() not followed by remove() or clear(), the tabs
     \* that were initialized when it was made, the tabs initialized since
     written |-> None,
     receiver |-> [t \in Tabs |-> FALSE],
     loadedSince |-> [t \in Tabs |-> FALSE],
     \* the last public call and what it returned
     last |-> NoCall]

TheEntry(s) == CHOOSE e \in s.db : TRUE
TheWritten(s) == CHOOSE w \in s.written : TRUE

\* AdvancedCrypto.initializeKey: derives the key once per page load; k is the
\* key that Date.now() yields if it is derived now
initializeKey(tab, k) ==
    IF tab.key # None THEN tab ELSE [tab EXCEPT !.key = Some(k)]

\* SecureDB.clearExpired: deletes the entries with expiresAt <= now
clearExpired(s) ==
    IF s.db # None /\ TheEntry(s).expiresAt <= s.now THEN [s EXCEPT !.db = None] ELSE s

\* decrypt fails under another key than the one that encrypted: the catch
\* block falls back to the default state
loadFromStorage(s, t, k) ==
    IF s.db = None THEN [s EXCEPT !.tabs[t].cache = None]
    ELSE IF s.now > TheEntry(s).expiresAt
    THEN [s EXCEPT !.db = None, !.tabs[t].cache = None]
    ELSE LET tab == initializeKey(s.tabs[t], k) IN
         IF tab.key = Some(TheEntry(s).cipherKey)
         THEN [s EXCEPT !.tabs[t] = [tab EXCEPT !.cache = TheEntry(s).data]]
         ELSE [s EXCEPT !.tabs[t] = [tab EXCEPT !.cache = None]]

initialize(s, t, k) ==
    IF s.tabs[t].isInitialized THEN s
    ELSE LET loaded == clearExpired(loadFromStorage(s, t, k)) IN
         [loaded EXCEPT !.tabs[t].isInitialized = TRUE, !.loadedSince[t] = TRUE]

persistToStorage(s, t, k) ==
    LET tab == initializeKey(s.tabs[t], k) IN
    [s EXCEPT !.tabs[t] = tab,
              !.db = Some([data |-> tab.cache,
                           cipherKey |-> CHOOSE c \in tab.key : TRUE,
                           expiresAt |-> s.now + EXPIRY_HOURS])]

\* postMessage reaches every other page
broadcast(s, t, message) ==
    [s EXCEPT !.inbox = [u \in Tabs |-> IF u = t THEN s.inbox[u]
                                        ELSE Append(s.inbox[u], message)]]

handleBroadcastMessage(s, t, message) ==
    IF message.tabId = t THEN s
    ELSE IF message.type = "update"
    THEN IF Truthy(message.data) THEN [s EXCEPT !.tabs[t].cache = message.data] ELSE s
    ELSE [s EXCEPT !.tabs[t].cache = None]

get(s, t, k) ==
    LET i == initialize(s, t, k) IN
    [i EXCEPT !.last = [op |-> "get", tab |-> t, value |-> i.tabs[t].cache]]

set(s, t, k, value) ==
    LET i == initialize(s, t, k)
        c == [i EXCEPT !.tabs[t].cache = Some(value)]
        p == persistToStorage(c, t, k)
        b == broadcast(p, t, [type |-> "update", tabId |-> t, data |-> Some(value)])
    IN  [b EXCEPT !.written = Some([value |-> value, at |-> s.now, by |-> t]),
                  !.receiver = [u \in Tabs |-> u # t /\ s.tabs[u].isInitialized],
                  !.loadedSince = [u \in Tabs |-> FALSE],
                  !.last = [op |-> "set", tab |-> t, value |-> Some(value)]]

remove(s, t, k) ==
    LET i == initialize(s, t, k)
        c == [i EXCEPT !.tabs[t].cache = None]
        p == persistToStorage(c, t, k)
        b == broadcast(p, t, [type |-> "update", tabId |-> t, data |-> None])
    IN  [b EXCEPT !.written = None, !.last = [op |-> "remove", tab |-> t, value |-> None]]

clear(s, t, k) ==
    LET i == initialize(s, t, k)
        c == [i EXCEPT !.db = None, !.tabs[t].cache = None]
        b == broadcast(c, t, [type |-> "clear", tabId |-> t, data |-> None])
    IN  [b EXCEPT !.written = None, !.last = [op |-> "clear", tab |-> t, value |-> None]]

\* a refresh or a new page load in the tab: cleanup() on beforeunload closes
\* the channel, the new page constructs a new manager
reload(s, t) ==
    [s EXCEPT !.tabs[t] = NewTab, !.inbox[t] = <<>>, !.receiver[t] = FALSE,
              !.loadedSince[t] = FALSE, !.last = [op |-> "reload", tab |-> t, value |-> None]]

\* ------------------------------------------------ session timeout manager
\* The SessionTimeoutManager singleton of a page.  Time is counted in
\* minutes; a timer is kept while it is armed and may fire once it is due.
MaxNow == 4
\* the largest env.session.timeoutMinutes tried, and env.session.warningMinutes
TimeoutMinutes == 2
WarningMinutes == 1
Min(a, b) == IF a < b THEN a ELSE b
Max(a, b) == IF a > b THEN a ELSE b

NoEvent == [op |-> "none", result |-> FALSE]
Event(op) == [op |-> op, result |-> FALSE]
\* the manager as constructed
SessionInit ==
    [now |-> 0,
     timeoutMinutes |-> TimeoutMinutes, \* env.session.timeoutMinutes
     hidden |-> FALSE,             \* document.hidden
     sessionInfo |-> None,         \* None or Some([isValid, expiresAt, warningShown])
     isInitialized |-> FALSE,
     isActive |-> TRUE,
     lastUserActivity |-> 0,
     checkInterval |-> FALSE,      \* the periodic check is running
     warningTimeout |-> None,      \* None or Some(the time it is due)
     expirationTimeout |-> None,
     activityThrottle |-> FALSE,
     \* timers started with setTimeout whose handle is not kept; the one that
     \* scheduleTimeouts starts for a session expired already is never started
     \* while timeoutMinutes > 0
     pendingWarning |-> FALSE,
     pendingExpiration |-> FALSE,
     pendingRedirect |-> FALSE,
     \* history: the kind of the last step ("call", "timer", "event" or
     \* "isSessionValid" with what it returned), false returns of isSessionValid /
     \* invalidateSession was called / calls of notifyExpired (each notifies
     \* the callbacks registered and is followed by the scheduling of the
     \* redirect) since initializeSession
     last |-> NoEvent,
     falseReturns |-> 0,
     extendedAfterFalse |-> FALSE, \* extendSession ran after a false return
     invalidated |-> FALSE,
     expiredNotified |-> 0]

Info(s) == CHOOSE i \in s.sessionInfo : TRUE
SetInfo(s, i) == [s EXCEPT !.sessionInfo = Some(i)]

clearTimeouts(s) == [s EXCEPT !.warningTimeout = None, !.expirationTimeout = None]
stopPeriodicCheck(s) == [s EXCEPT !.checkInterval = FALSE]
startPeriodicCheck(s) == [s EXCEPT !.checkInterval = TRUE]

scheduleTimeouts(s) ==
    LET c == clearTimeouts(s) IN
    IF c.sessionInfo = None THEN c
    ELSE LET timeUntilExpiration == Info(c).expiresAt - c.now
             w == IF timeUntilExpiration > WarningMinutes
                  THEN [c EXCEPT !.warningTimeout =
                                     Some(c.now + timeUntilExpiration - WarningMinutes)]
                  ELSE IF timeUntilExpiration > 0
                  THEN [c EXCEPT !.pendingWarning = TRUE]
                  ELSE c
         IN  IF timeUntilExpiration > 0
             THEN [w EXCEPT !.expirationTimeout = Some(c.now + timeUntilExpiration)]
             ELSE [w EXCEPT !.pendingExpiration = TRUE]

initializeSession(s) ==
    LET i == [s EXCEPT !.sessionInfo = Some([isValid |-> TRUE,
                                             expiresAt |-> s.now + s.timeoutMinutes,
                                             warningShown |-> FALSE]),
                       !.lastUserActivity = s.now,
                       !.isInitialized = TRUE,
                       !.falseReturns = 0, !.extendedAfterFalse = FALSE,
                       !.invalidated = FALSE,
                       !.expiredNotified = 0]
    IN  scheduleTimeouts(startPeriodicCheck(i))

getMinutesRemaining(s) ==
    IF s.sessionInfo = None \/ ~Info(s).isValid THEN 0
    ELSE Max(0, Info(s).expiresAt - s.now)

\* the callbacks registered are called; which ones are registered has no
\* effect on the manager
notifyWarning(s) == s
notifyExpired(s) == [s EXCEPT !.expiredNotified = Min(s.expiredNotified + 1, 2)]

showSessionWarning(s) ==
    IF s.sessionInfo = None \/ ~Info(s).isValid THEN s
    ELSE IF getMinutesRemaining(s) > 0 /\ ~Info(s).warningShown
    THEN notifyWarning(SetInfo(s, [Info(s) EXCEPT !.warningShown = TRUE]))
    ELSE s

handleSessionExpiration(s) ==
    IF s.sessionInfo = None THEN s
    ELSE LET e == notifyExpired(stopPeriodicCheck(clearTimeouts(
                      SetInfo(s, [Info(s) EXCEPT !.isValid = FALSE]))))
         IN  [e EXCEPT !.pendingRedirect = TRUE]

C28_extendSession_mut(s) ==
    IF s.sessionInfo = None \/ ~s.isInitialized THEN s
    ELSE scheduleTimeouts(
             [SetInfo(s, [isValid |-> TRUE,
                          expiresAt |-> s.now + s.timeoutMinutes,
                          warningShown |-> FALSE])
                 EXCEPT !.lastUserActivity = s.now,
                        !.extendedAfterFalse = s.extendedAfterFalse \/ s.falseReturns > 0])

extendSession(s) ==
    IF s.sessionInfo = None \/ ~s.isInitialized THEN s
    ELSE scheduleTimeouts(
             [SetInfo(s, [Info(s) EXCEPT !.expiresAt = s.now + s.timeoutMinutes,
                                         !.warningShown = FALSE])
                 EXCEPT !.lastUserActivity = s.now,
                        !.extendedAfterFalse = s.extendedAfterFalse \/ s.falseReturns > 0])

\* what isSessionValid returns
isSessionValidResult(s) ==
    /\ s.sessionInfo # None
    /\ s.isInitialized
    /\ Info(s).isValid
    /\ s.now < Info(s).expiresAt
\* what isSessionValid does
isSessionValid(s) ==
    IF s.sessionInfo = None \/ ~s.isInitialized
    THEN [s EXCEPT !.falseReturns = Min(s.falseReturns + 1, 2)]
    ELSE IF isSessionValidResult(s) THEN s
    ELSE LET e == IF Info(s).isValid THEN handleSessionExpiration(s) ELSE s
         IN  [e EXCEPT !.falseReturns = Min(e.falseReturns + 1, 2)]

invalidateSession(s) ==
    LET i == IF s.sessionInfo # None
             THEN SetInfo(s, [Info(s) EXCEPT !.isValid = FALSE]) ELSE s
    IN  [stopPeriodicCheck(clearTimeouts(i)) EXCEPT !.invalidated = TRUE]

clearSession(s) ==
    [stopPeriodicCheck(clearTimeouts(s)) EXCEPT !.sessionInfo = None,
                                                !.isInitialized = FALSE,
                                                !.activityThrottle = FALSE]

\* setupActivityListeners: the throttled listener and what its timer runs
throttledHandler(s) ==
    IF s.activityThrottle THEN s ELSE [s EXCEPT !.activityThrottle = TRUE]
handleActivity(s) ==
    LET a == [s EXCEPT !.lastUserActivity = s.now, !.activityThrottle = FALSE] IN
    IF a.sessionInfo # None /\ Info(a).isValid /\ a.isInitialized
    THEN extendSession(a) ELSE a

\* setupVisibilityListeners
handleVisibilityChange(s) ==
    LET wasActive == s.isActive
        v == [s EXCEPT !.isActive = ~s.hidden]
    IN  IF v.isActive /\ ~wasActive /\ v.sessionInfo # None /\ v.isInitialized
        THEN IF v.now >= Info(v).expiresAt THEN handleSessionExpiration(v)
             ELSE IF v.now - v.lastUserActivity > v.timeoutMinutes
             THEN handleSessionExpiration(v)
             ELSE extendSession(v)
        ELSE v
handleFocus(s) ==
    IF ~s.isActive THEN handleVisibilityChange([s EXCEPT !.isActive = TRUE]) ELSE s
handleBlur(s) == [s EXCEPT !.isActive = FALSE]

performPeriodicCheck(s) ==
    IF s.sessionInfo = None \/ ~s.isInitialized THEN s
    ELSE IF ~isSessionValidResult(s) THEN isSessionValid(s)
    ELSE IF getMinutesRemaining(s) <= Max(WarningMinutes, 1) /\ ~Info(s).warningShown
    THEN showSessionWarning(s)
    ELSE s

\* ------------------------------------------------------------------- state
VARIABLES
    req,              \* the acquisition inputs of this invocation
    cfg,              \* mark_build_status, return_status and the upload inputs
    pc,               \* where run() is
    formattedCommand, \* run()'s formattedCommand
    bridgeVersion,    \* downloadBridge's bridgeVersion: None until determined
    decision,         \* what the acquisition step decided
    exitCode,         \* run()'s exitCode: None while undefined
    isBridgeExecuted, \* run()'s isBridgeExecuted
    outcome,          \* what handleExitCode made of the exit code
    error,            \* the error run() is about to throw: None or Some(error)
    output,           \* the exit-status output: None until setOutput
    trace,            \* the calls made so far, in order
    failed,           \* setFailed was called
    platform,         \* a platform selection: the request and the bundle selected
    storage,          \* the secure storage of an origin: database, tabs, channel
    session           \* the session timeout manager of a page

vars == <<req, cfg, pc, formattedCommand, bridgeVersion, decision, exitCode,
          isBridgeExecuted, outcome, error, output, trace, failed,
          platform, storage, session>>

Config == [markBuildStatus : BuildStatus,
           returnStatus : BOOLEAN,
           includeDiagnostics : BOOLEAN,
           isPullRequest : BOOLEAN,
           sarifCreate : BOOLEAN]

ErrorKinds == {"PrepareCommandFailed", "DownloadFailed", "BridgeNotFound",
               "BridgeExit", "Unexpected", "UploadFailed"}
\* an error: what failed, the exit code the bridge process ended with (if it
\* is the error of a failed process) and the last character of its message
Errors == [kind : ErrorKinds, code : Opt(ExitCodes), lastChar : LastChars]
Failure(kind, lastChar) == [kind |-> kind, code |-> None, lastChar |-> lastChar]
BridgeExit(c) == [kind |-> "BridgeExit", code |-> Some(c), lastChar |-> ExitCodeLastChar(c)]

\* the command of the stage: --stage <product>[@<workflow version>]
\* [--use bridge-cli@<version>] --input <state file> --update
prepareCommand(r) ==
    [stage |-> r.requestedWorkflowVersion, use |-> r.requestedVersion, update |-> TRUE]
\* let formattedCommand = ''
NoCommand == [stage |-> None, use |-> None, update |-> FALSE]

Idle ==
    /\ formattedCommand = NoCommand
    /\ bridgeVersion = None
    /\ decision = NoDecision
    /\ exitCode = None
    /\ isBridgeExecuted = FALSE
    /\ outcome = NoOutcome
    /\ error = None
    /\ output = None
    /\ trace = <<>>
    /\ failed = FALSE

\* nothing but the action runs: no platform selection is asked for, the
\* storage and the session manager stay as constructed
OthersIdle ==
    /\ platform = NoPlatform
    /\ storage = StorageInit
    /\ session = SessionInit

\* run() is entered once per invocation, the inputs already read
Init ==
    /\ req \in AcquisitionRequest
    /\ cfg \in Config
    /\ pc = "start"
    /\ Idle
    /\ OthersIdle

Throw(e) ==
    /\ error' = Some(e)
    /\ pc' = "catch"

\* formattedCommand = await sb.prepareCommand(tempDir)
PrepareCommand ==
    /\ pc = "start"
    /\ trace' = Append(trace, "prepareCommand")
    /\ \/ /\ formattedCommand' = prepareCommand(req)
          /\ pc' = "prepared"
          /\ UNCHANGED error
       \/ /\ \E c \in LastChars : Throw(Failure("PrepareCommandFailed", c))
          /\ UNCHANGED formattedCommand
    /\ UNCHANGED <<platform, storage, session, req, cfg, bridgeVersion, decision, exitCode, isBridgeExecuted, outcome, output, failed>>

IsDownload(d) == d.kind \in {"DownloadLatest", "DownloadVersion", "DownloadFromCustomUrl"}

\* the calls of one downloadBridge: the version check reads versions.txt
\* when the custom URL names no version, a download fetches the bundle
DownloadBridgeCalls(r, fetch) ==
    <<"downloadBridge">>
        \o (IF NeedsVersionsTxt(r) THEN <<"getBridgeVersionFromLatestURL">> ELSE <<>>)
        \o fetch

C13_DownloadBridge_mut ==
    /\ pc = "prepared"
    /\ ~req.airgapEnabled
    /\ \E v \in BridgeVersionAtUrl(req) :
          /\ bridgeVersion' = v
          /\ decision' = IF cfg.returnStatus THEN resolve(req, v) ELSE DownloadLatest
    /\ trace' = trace \o DownloadBridgeCalls(req, <<>>)
    /\ pc' = "acquired"
    /\ UNCHANGED <<platform, storage, session, req, cfg, formattedCommand, exitCode, isBridgeExecuted, outcome,
                   error, output, failed>>

C18_DownloadBridge_mut ==
    /\ pc = "prepared"
    /\ \E v \in BridgeVersionAtUrl(req) :
          /\ bridgeVersion' = v
          /\ decision' = resolve(req, v)
          /\ trace' = trace \o DownloadBridgeCalls(req,
                 IF IsDownload(resolve(req, v)) THEN <<"getRemoteFile">> ELSE <<>>)
    /\ pc' = "acquired"
    /\ UNCHANGED <<platform, storage, session, req, cfg, formattedCommand, exitCode, isBridgeExecuted, outcome,
                   error, output, failed>>

\* await sb.downloadBridge(tempDir): reached only without air gap; it decides
\* by the download flow and fetches the bundle when the decision is a download
DownloadBridge ==
    /\ pc = "prepared"
    /\ ~req.airgapEnabled
    /\ \E v \in BridgeVersionAtUrl(req) :
          /\ bridgeVersion' = v
          /\ decision' = resolve(req, v)
          /\ \/ /\ ~IsDownload(resolve(req, v))
                /\ trace' = trace \o DownloadBridgeCalls(req, <<>>)
                /\ pc' = "acquired"
                /\ UNCHANGED error
             \/ /\ IsDownload(resolve(req, v))
                /\ trace' = trace \o DownloadBridgeCalls(req, <<"getRemoteFile">>)
                /\ \/ pc' = "acquired" /\ UNCHANGED error
                   \/ \E c \in LastChars : Throw(Failure("DownloadFailed", c))
    /\ UNCHANGED <<platform, storage, session, req, cfg, formattedCommand, exitCode, isBridgeExecuted, outcome, output, failed>>

\* validateBridgePath passes when a bridge is installed at the path and
\* raises the configuration error otherwise
validateBridgePath(r) == IF r.cached THEN Skip ELSE ErrorDecision

C9_ValidateBridgePath_mut ==
    /\ pc = "prepared"
    /\ req.airgapEnabled
    /\ trace' = Append(trace, "validateBridgePath")
    /\ decision' = validateBridgePath(req)
    /\ pc' = "acquired"
    /\ UNCHANGED <<platform, storage, session, req, cfg, formattedCommand, bridgeVersion, exitCode, isBridgeExecuted, outcome, error, output, failed>>

\* air gap: info('... skipping bridge CLI download.'); await sb.validateBridgePath()
ValidateBridgePath ==
    /\ pc = "prepared"
    /\ req.airgapEnabled
    /\ trace' = Append(trace, "validateBridgePath")
    /\ decision' = validateBridgePath(req)
    /\ IF validateBridgePath(req) = ErrorDecision
       THEN Throw(Failure("BridgeNotFound", None))
       ELSE pc' = "acquired" /\ UNCHANGED error
    /\ UNCHANGED <<platform, storage, session, req, cfg, formattedCommand, bridgeVersion, exitCode, isBridgeExecuted, outcome, output, failed>>

\* exitCode = await sb.executeBridgeCommand(...): the process's exit code is
\* returned, or raised in an error whose message ends with it, or the
\* command fails without any exit code
ExecuteBridgeCommand ==
    /\ pc = "acquired"
    /\ trace' = Append(trace, "executeBridgeCommand")
    /\ \/ \E c \in ExitCodes :
            /\ exitCode' = Some(c)
            /\ pc' = "executed"
            /\ UNCHANGED error
       \/ \E c \in 1..MaxExitCode :
            /\ Throw(BridgeExit(c))
            /\ UNCHANGED exitCode
       \/ /\ Throw(Failure("Unexpected", None))
          /\ UNCHANGED exitCode
    /\ UNCHANGED <<platform, storage, session, req, cfg, formattedCommand, bridgeVersion, decision, isBridgeExecuted, outcome, output, failed>>

TheExitCode == CHOOSE c \in ExitCodes : exitCode = Some(c)
TheError == CHOOSE e \in Errors : error = Some(e)

\* handleExitCode(exitCode); info('... workflow execution completed.'); return exitCode
HandleExitCode ==
    /\ pc = "executed"
    /\ trace' = Append(trace, "handleExitCode")
    /\ outcome' = handleExitCode(TheExitCode, cfg.markBuildStatus)
    /\ IF handleExitCode(TheExitCode, cfg.markBuildStatus).throws
       THEN Throw(BridgeExit(TheExitCode))
       ELSE pc' = "finally" /\ UNCHANGED error
    /\ UNCHANGED <<platform, storage, session, req, cfg, formattedCommand, bridgeVersion, decision, exitCode, isBridgeExecuted, output, failed>>

\* catch (error): exitCode and isBridgeExecuted from the message; throw error
Catch ==
    /\ pc = "catch"
    /\ exitCode' = Some(getBridgeExitCodeAsNumericValue(TheError.lastChar))
    /\ isBridgeExecuted' = getBridgeExitCode(TheError.lastChar)
    /\ pc' = "finally"
    /\ UNCHANGED <<platform, storage, session, req, cfg, formattedCommand, bridgeVersion, decision, outcome, error, output, trace, failed>>

C19_SetOutput_mut ==
    /\ pc = "finally"
    /\ output' = exitCode
    /\ trace' = Append(trace, "setOutput")
    /\ pc' = "diagnostics"
    /\ UNCHANGED <<platform, storage, session, req, cfg, formattedCommand, bridgeVersion, decision, exitCode,
                   isBridgeExecuted, outcome, error, failed>>

\* finally: if (config.returnStatus) setOutput(EXIT_OUTPUT_STATUS, exitCode)
SetOutput ==
    /\ pc = "finally"
    /\ IF cfg.returnStatus
       THEN output' = exitCode /\ trace' = Append(trace, "setOutput")
       ELSE UNCHANGED <<output, trace>>
    /\ pc' = "diagnostics"
    /\ UNCHANGED <<platform, storage, session, req, cfg, formattedCommand, bridgeVersion, decision, exitCode, isBridgeExecuted, outcome, error, failed>>

\* an upload that fails throws out of the finally block: its error replaces
\* the pending return or throw and the rest of the block is skipped
UploadOrThrow(call, next) ==
    /\ trace' = Append(trace, call)
    /\ \/ pc' = next /\ UNCHANGED error
       \/ /\ error' = Some(Failure("UploadFailed", None))
          /\ pc' = "settled"

C27_UploadDiagnostics_mut ==
    /\ pc = "diagnostics"
    /\ IF cfg.includeDiagnostics
       THEN UploadOrThrow("uploadDiagnostics", "sarif")
       ELSE pc' = "sarif" /\ UNCHANGED <<error, trace>>
    /\ UNCHANGED <<platform, storage, session, req, cfg, formattedCommand, bridgeVersion, decision, exitCode,
                   isBridgeExecuted, outcome, output, failed>>

\* if (isBridgeExecuted) { if (inputs.INCLUDE_DIAGNOSTICS) await uploadDiagnostics()
UploadDiagnostics ==
    /\ pc = "diagnostics"
    /\ IF isBridgeExecuted /\ cfg.includeDiagnostics
       THEN UploadOrThrow("uploadDiagnostics", "sarif")
       ELSE pc' = "sarif" /\ UNCHANGED <<error, trace>>
    /\ UNCHANGED <<platform, storage, session, req, cfg, formattedCommand, bridgeVersion, decision, exitCode, isBridgeExecuted, outcome, output, failed>>

uploadSarifReportBasedOnExitCode == exitCode = Some(0) \/ exitCode = Some(8)

\* if (!isPullRequestEvent() && uploadSarifReportBasedOnExitCode) and the
\* product's SARIF report is to be created: await uploadSarifReportAsArtifact(...)
UploadSarif ==
    /\ pc = "sarif"
    /\ IF /\ isBridgeExecuted
          /\ ~cfg.isPullRequest
          /\ uploadSarifReportBasedOnExitCode
          /\ cfg.sarifCreate
       THEN UploadOrThrow("uploadSarifReportAsArtifact", "cleanup")
       ELSE pc' = "cleanup" /\ UNCHANGED <<error, trace>>
    /\ UNCHANGED <<platform, storage, session, req, cfg, formattedCommand, bridgeVersion, decision, exitCode, isBridgeExecuted, outcome, output, failed>>

\* await cleanupTempDir(tempDir), the last statement of the finally block
CleanupTempDir ==
    /\ pc = "cleanup"
    /\ trace' = Append(trace, "cleanupTempDir")
    /\ pc' = "settled"
    /\ UNCHANGED <<platform, storage, session, req, cfg, formattedCommand, bridgeVersion, decision, exitCode, isBridgeExecuted, outcome, error, output, failed>>

\* run().catch(error => setFailed('Workflow failed! ' ...)): a rejected run
\* fails the workflow, a resolved one does not
RunSettled ==
    /\ pc = "settled"
    /\ IF error # None
       THEN failed' = TRUE /\ trace' = Append(trace, "setFailed")
       ELSE UNCHANGED <<failed, trace>>
    /\ pc' = "done"
    /\ UNCHANGED <<platform, storage, session, req, cfg, formattedCommand, bridgeVersion, decision, exitCode, isBridgeExecuted, outcome, error, output>>

Next ==
    \/ PrepareCommand
    \/ DownloadBridge
    \/ ValidateBridgePath
    \/ ExecuteBridgeCommand
    \/ HandleExitCode
    \/ Catch
    \/ SetOutput
    \/ UploadDiagnostics
    \/ UploadSarif
    \/ CleanupTempDir
    \/ RunSettled

Spec == Init /\ [][Next]_vars

\* ------------------------------------------- the decision flow on its own
InitResolve ==
    /\ req \in AcquisitionRequest
    /\ cfg = [markBuildStatus |-> "FAILURE", returnStatus |-> FALSE,
              includeDiagnostics |-> FALSE, isPullRequest |-> FALSE, sarifCreate |-> FALSE]
    /\ pc = "resolve"
    /\ Idle
    /\ OthersIdle

Resolve ==
    /\ pc = "resolve"
    /\ \E v \in BridgeVersionAtUrl(req) :
          /\ bridgeVersion' = v
          /\ decision' = resolve(req, v)
    /\ pc' = "resolved"
    /\ UNCHANGED <<platform, storage, session, req, cfg, formattedCommand, exitCode, isBridgeExecuted, outcome, error, output, trace, failed>>

SpecResolve == InitResolve /\ [][Resolve]_vars

\* ------------------------------------------------ the other components
pipeline == <<req, cfg, pc, formattedCommand, bridgeVersion, decision, exitCode,
              isBridgeExecuted, outcome, error, output, trace, failed>>

\* the action is not running
NotRunning ==
    /\ req = [airgapEnabled |-> FALSE, thinClientEnabled |-> FALSE, cached |-> FALSE,
              cachedVersion |-> None, customUrl |-> None, requestedVersion |-> None,
              requestedWorkflowVersion |-> None]
    /\ cfg = [markBuildStatus |-> "FAILURE", returnStatus |-> FALSE,
              includeDiagnostics |-> FALSE, isPullRequest |-> FALSE, sarifCreate |-> FALSE]
    /\ pc = "notRunning"
    /\ Idle

\* ---- platform selection: one request, one selection
InitPlatform ==
    /\ NotRunning
    /\ platform \in {[request |-> r, selected |-> "none"] : r \in PlatformRequests}
    /\ storage = StorageInit
    /\ session = SessionInit

SelectPlatform ==
    /\ platform.selected = "none"
    /\ platform' = [platform EXCEPT !.selected = SelectedPlatform(platform.request)]
    /\ UNCHANGED <<pipeline, storage, session>>

SpecPlatform == InitPlatform /\ [][SelectPlatform]_vars

\* ---- secure storage: the tabs of one origin
InitStorage ==
    /\ NotRunning
    /\ platform = NoPlatform
    /\ storage = StorageInit
    /\ session = SessionInit

StorageStep(s) ==
    /\ storage' = s
    /\ UNCHANGED <<pipeline, platform, session>>

HasRoom(t) == \A u \in Tabs \ {t} : Len(storage.inbox[u]) < MaxInbox

\* time passes: an hour, or the whole expiry time
StorageTick ==
    \E d \in {1, EXPIRY_HOURS} :
        /\ storage.now + d <= MaxTime
        /\ StorageStep([storage EXCEPT !.now = storage.now + d,
                                       !.last = [op |-> "tick", tab |-> 0, value |-> None]])

Get(t) == \E k \in KeyIds : StorageStep(get(storage, t, k))

Set(t) ==
    /\ HasRoom(t)
    /\ \E k \in KeyIds, value \in Values : StorageStep(set(storage, t, k, value))

Remove(t) ==
    /\ HasRoom(t)
    /\ \E k \in KeyIds : StorageStep(remove(storage, t, k))

Clear(t) ==
    /\ HasRoom(t)
    /\ \E k \in KeyIds : StorageStep(clear(storage, t, k))

\* the channel delivers the oldest message to the page's onmessage
Deliver(t) ==
    /\ storage.inbox[t] # <<>>
    /\ StorageStep(handleBroadcastMessage(
           [storage EXCEPT !.inbox[t] = Tail(storage.inbox[t]),
                           !.last = [op |-> "deliver", tab |-> t, value |-> None]],
           t, Head(storage.inbox[t])))

\* startCleanup: the hourly clearExpired of an initialized page
Cleanup(t) ==
    /\ storage.tabs[t].isInitialized
    /\ StorageStep(clearExpired(
           [storage EXCEPT !.last = [op |-> "cleanup", tab |-> t, value |-> None]]))

Reload(t) == StorageStep(reload(storage, t))

NextStorage ==
    \/ StorageTick
    \/ \E t \in Tabs : Get(t)
    \/ \E t \in Tabs : Set(t)
    \/ \E t \in Tabs : Remove(t)
    \/ \E t \in Tabs : Clear(t)
    \/ \E t \in Tabs : Deliver(t)
    \/ \E t \in Tabs : Cleanup(t)
    \/ \E t \in Tabs : Reload(t)

SpecStorage == InitStorage /\ [][NextStorage]_vars

\* ---- session timeout manager: the application's calls, the timers and
\* the browser events of one page
InitSession ==
    /\ NotRunning
    /\ platform = NoPlatform
    /\ storage = StorageInit
    /\ session \in {[SessionInit EXCEPT !.timeoutMinutes = m] : m \in 1..TimeoutMinutes}

SessionStep(op, s) ==
    /\ session' = [s EXCEPT !.last = Event(op)]
    /\ UNCHANGED <<pipeline, platform, storage>>

SessionTick ==
    /\ session.now < MaxNow
    /\ SessionStep("timer", [session EXCEPT !.now = session.now + 1])

InitializeSession == SessionStep("call", initializeSession(session))
ExtendSession == SessionStep("call", extendSession(session))
IsSessionValid ==
    /\ session' = [isSessionValid(session) EXCEPT
                       !.last = [op |-> "isSessionValid",
                                 result |-> isSessionValidResult(session)]]
    /\ UNCHANGED <<pipeline, platform, storage>>
InvalidateSession == SessionStep("call", invalidateSession(session))
ClearSession == SessionStep("call", clearSession(session))
ForceExpiration == SessionStep("call", handleSessionExpiration(session))

WarningTimeoutFires ==
    /\ session.warningTimeout # None
    /\ \A due \in session.warningTimeout : session.now >= due
    /\ SessionStep("timer",
                   showSessionWarning([session EXCEPT !.warningTimeout = None]))
ExpirationTimeoutFires ==
    /\ session.expirationTimeout # None
    /\ \A due \in session.expirationTimeout : session.now >= due
    /\ SessionStep("timer",
                   handleSessionExpiration([session EXCEPT !.expirationTimeout = None]))
\* the timer of 100 ms whose handle is not kept
PendingWarningFires ==
    /\ session.pendingWarning
    /\ SessionStep("timer",
                   showSessionWarning([session EXCEPT !.pendingWarning = FALSE]))
\* the forced redirect: nothing on '/', else the page is left and the next
\* page constructs its manager
RedirectFires ==
    /\ session.pendingRedirect
    /\ \/ SessionStep("timer", [session EXCEPT !.pendingRedirect = FALSE])
       \/ SessionStep("timer", [SessionInit EXCEPT !.now = session.now,
                                                   !.timeoutMinutes = session.timeoutMinutes])
PeriodicCheck ==
    /\ session.checkInterval
    /\ SessionStep("timer", performPeriodicCheck(session))

UserActivity == SessionStep("event", throttledHandler(session))
ActivityThrottleFires ==
    /\ session.activityThrottle
    /\ SessionStep("event", handleActivity(session))
VisibilityChange ==
    SessionStep("event",
                handleVisibilityChange([session EXCEPT !.hidden = ~session.hidden]))
Focus == SessionStep("event", handleFocus(session))
Blur == SessionStep("event", handleBlur(session))

NextSession ==
    \/ SessionTick
    \/ InitializeSession
    \/ ExtendSession
    \/ IsSessionValid
    \/ InvalidateSession
    \/ ClearSession
    \/ ForceExpiration
    \/ WarningTimeoutFires
    \/ ExpirationTimeoutFires
    \/ PendingWarningFires
    \/ RedirectFires
    \/ PeriodicCheck
    \/ UserActivity
    \/ ActivityThrottleFires
    \/ VisibilityChange
    \/ Focus
    \/ Blur

SpecSession == InitSession /\ [][NextSession]_vars

\* ------------------------------------------------------------------ claims
Called(call) == \E i \in 1..Len(trace) : trace[i] = call
\* every call of b is preceded by a call of a
Precedes(a, b) ==
    \A j \in 1..Len(trace) : trace[j] = b => \E i \in 1..(j - 1) : trace[i] = a
Classified == outcome # NoOutcome

\* C1: every request with air gap enabled, no cached bridge and no custom URL
\* is decided Error, never a download or a skip, for thin and thick client
C1_AirgapUnavailableIsError ==
    (pc = "resolved" /\ req.airgapEnabled /\ ~req.cached /\ req.customUrl = None)
        => decision = ErrorDecision

\* C2: with a custom URL the acquisition decides DownloadFromCustomUrl, or
\* Skip only when the cached version equals an explicit requested version;
\* never DownloadLatest, DownloadVersion or Error, air gap included
C2_CustomUrlTakesPrecedence ==
    (req.customUrl # None /\ decision # NoDecision)
        => \/ decision.kind = "DownloadFromCustomUrl"
           \/ /\ decision = Skip
              /\ req.cached
              /\ req.requestedVersion # None
              /\ req.cachedVersion = req.requestedVersion

\* C3: under FAILURE an exit code 8 is a policy violation and the finished
\* invocation is reported failed (run rejects, setFailed is called)
C3_FailureModeFailsOnPolicyViolation ==
    (pc = "done" /\ cfg.markBuildStatus = "FAILURE" /\ Classified /\ outcome.code = 8)
        => (outcome.isPolicyViolation /\ error # None /\ failed)

C5_UnstablePolicyViolationMessage ==
    (Classified /\ cfg.markBuildStatus = "UNSTABLE" /\ outcome.code = 8)
        => /\ outcome.isPolicyViolation
           /\ ~failed
           /\ outcome.message = "policyViolationTreatedAsUnstable"

\* C6: under FAILURE or UNSTABLE an exit code other than 0 and 8 is treated
\* as a failure, with the message naming the unknown exit code, and the
\* finished invocation is a failed build
C6_UnknownExitCodeFails ==
    (pc = "done" /\ Classified /\ outcome.code \notin {0, 8}
        /\ cfg.markBuildStatus \in {"FAILURE", "UNSTABLE"})
        => (outcome.message = "unknownExitCodeContinues" /\ failed)

\* C7: with return_status set, the exit-status output of a finished
\* invocation is the exit code the bridge process ended with, whether the
\* code was returned (success path) or raised in an error (failure path)
C7_RawExitCodeReported ==
    (pc = "done" /\ cfg.returnStatus)
        => /\ Classified => output = Some(outcome.code)
           /\ (error # None /\ TheError.kind = "BridgeExit") => output = TheError.code

\* C8: acquisition comes before execution, classification after execution,
\* and every diagnostics or SARIF upload after classification
C8_SequentialPipeline ==
    /\ Called("executeBridgeCommand") =>
            (Called("downloadBridge") \/ Called("validateBridgePath"))
    /\ Precedes("executeBridgeCommand", "handleExitCode")
    /\ Precedes("handleExitCode", "uploadDiagnostics")
    /\ Precedes("handleExitCode", "uploadSarifReportAsArtifact")

\* C9: once acquisition has failed with the configuration error, the bridge
\* command is never executed in that run and the finished run is failed
C9_ConfigErrorAbortsBeforeExecution ==
    decision = ErrorDecision
        => /\ ~Called("executeBridgeCommand")
           /\ ~Classified
           /\ pc = "done" => failed

C9_Witness ==
    /\ pc = "done"
    /\ decision = ErrorDecision
    /\ req.airgapEnabled
    /\ ~req.cached
    /\ failed

\* C10: a cached bridge with no custom URL and no requested version is used
\* as it is (Skip), with and without air gap, thin or thick client, with or
\* without a workflow version
C10_CachedNoUrlNoVersionSkips ==
    (pc = "resolved" /\ req.cached /\ req.customUrl = None /\ req.requestedVersion = None)
        => decision = Skip

C10_Witness ==
    /\ pc = "resolved"
    /\ req.cached
    /\ req.customUrl = None
    /\ req.requestedVersion = None
    /\ req.airgapEnabled
    /\ req.thinClientEnabled
    /\ req.requestedWorkflowVersion # None
    /\ decision = Skip

\* C11: without air gap and without a custom URL, a bridge that is not cached
\* is downloaded in the requested version, or the latest when none is
\* requested; a cached bridge with a requested version is kept (Skip) when
\* its version is the requested one and replaced by DownloadVersion otherwise
C11_NonAirgapDecisionTable ==
    (pc = "resolved" /\ ~req.airgapEnabled /\ req.customUrl = None)
        => /\ ~req.cached =>
                decision = IF req.requestedVersion = None
                           THEN DownloadLatest
                           ELSE DownloadVersion(req.requestedVersion)
           /\ (req.cached /\ req.requestedVersion # None) =>
                decision = IF req.cachedVersion = req.requestedVersion
                           THEN Skip
                           ELSE DownloadVersion(req.requestedVersion)

C11_Witness ==
    /\ pc = "resolved"
    /\ ~req.airgapEnabled
    /\ req.customUrl = None
    /\ req.cached
    /\ req.requestedVersion # None
    /\ req.cachedVersion # req.requestedVersion
    /\ decision = DownloadVersion(req.requestedVersion)

\* C12: the workflow version does not change the download decision (the
\* request with any other workflow version is decided the same), and the
\* prepared command carries it after the stage for a thin client only: a
\* thick client's command has no workflow version
C12_WorkflowVersionOnlyForThinClient ==
    /\ (decision # NoDecision /\ ~req.airgapEnabled) =>
            \A w \in Opt(WorkflowVersions) :
                resolve([req EXCEPT !.requestedWorkflowVersion = w], bridgeVersion) = decision
    /\ formattedCommand # NoCommand =>
            formattedCommand.stage = IF req.thinClientEnabled
                                     THEN req.requestedWorkflowVersion
                                     ELSE None

C14_AirgapNoUrlNeverReachesDownload ==
    (pc = "resolved" /\ req.airgapEnabled /\ req.customUrl = None)
        => ~IsDownload(decision)

\* C15: handleExitCode never fails, and its message is the one of the four
\* classes the ordered rules give: success for exit code 0 or mode SUCCESS,
\* else non-failing policy violation for 8 under UNSTABLE, else failing
\* policy violation for 8, else unknown failure
C15_ClassifierTotalFourClasses ==
    Classified
        => /\ ~outcome.throws
           /\ outcome.message =
                IF outcome.code = 0 \/ cfg.markBuildStatus = "SUCCESS"
                THEN "completed"
                ELSE IF outcome.code = 8 /\ cfg.markBuildStatus = "UNSTABLE"
                     THEN "policyViolationContinues"
                     ELSE IF outcome.code = 8
                          THEN "policyViolationFails"
                          ELSE "unknownExitCodeContinues"

\* C16: a finished run whose returned exit code is non-failing (0, or 8 under
\* SUCCESS or UNSTABLE), on an event that is not a pull request, has uploaded
\* the diagnostics if include_diagnostics is set and the SARIF report if its
\* creation is enabled
C16_UploadsOnNonFailingOutcome ==
    (/\ pc = "done"
     /\ Classified
     /\ \/ outcome.code = 0
        \/ outcome.code = 8 /\ cfg.markBuildStatus \in {"SUCCESS", "UNSTABLE"}
     /\ ~cfg.isPullRequest)
        => /\ cfg.includeDiagnostics => Called("uploadDiagnostics")
           /\ cfg.sarifCreate => Called("uploadSarifReportAsArtifact")

\* C17: in a run under FAILURE whose bridge process ended with exit code 8,
\* returned or raised, no diagnostics and no SARIF report are uploaded, and
\* with return_status set the exit-status output is 8
C17_NoUploadsOnFailingPolicyViolation ==
    (/\ pc = "done"
     /\ cfg.markBuildStatus = "FAILURE"
     /\ \/ Classified /\ outcome.code = 8
        \/ error # None /\ TheError.kind = "BridgeExit" /\ TheError.code = Some(8))
        => /\ ~Called("uploadDiagnostics")
           /\ ~Called("uploadSarifReportAsArtifact")
           /\ cfg.returnStatus => output = Some(8)

C19_NoOutputWithoutReturnStatus ==
    ~cfg.returnStatus => (output = None /\ ~Called("setOutput"))

C19_Witness ==
    /\ pc = "done"
    /\ ~cfg.returnStatus
    /\ error # None
    /\ exitCode = Some(8)
    /\ output = None

\* C20: when executeBridgeCommand throws an error without an exit code, the
\* exit code is -1, the exit-status output is -1 when return_status is set,
\* nothing is uploaded, and the workflow is failed with the message
\* 'Unknown exit code: -1'
C20_ErrorWithoutExitCode ==
    (pc = "done" /\ error # None /\ TheError.kind = "Unexpected")
        => /\ exitCode = Some(-1)
           /\ cfg.returnStatus => output = Some(-1)
           /\ ~Called("uploadDiagnostics")
           /\ ~Called("uploadSarifReportAsArtifact")
           /\ failed
           /\ logBridgeExitCodes(TheError.lastChar) = "unknownExitCode"

\* C21: a mark_build_status that is none of SUCCESS, FAILURE, UNSTABLE is
\* handled as FAILURE, and with a returned exit code 8 the finished run is
\* failed with the policy-violation message and, with return_status set,
\* the exit-status output 8
C21_InvalidStatusBehavesAsFailure ==
    (pc = "done" /\ cfg.markBuildStatus = "INVALID" /\ Classified /\ outcome.code = 8)
        => /\ outcome = handleExitCode(8, "FAILURE")
           /\ outcome.message = "policyViolationContinues"
           /\ cfg.returnStatus => output = Some(8)
           /\ failed

C30_DecisionIndependentOfThinClient ==
    pc = "resolved"
        => resolve([req EXCEPT !.thinClientEnabled = ~req.thinClientEnabled],
                   bridgeVersion).kind = decision.kind

\* C22: a value stored with set is returned by get from a manager initialized
\* later (a new page load or another tab), while less than 8 hours have passed
\* and neither clear nor remove was called
C22_PersistsAcrossPageLoads ==
    \A t \in Tabs :
        (/\ storage.last.op = "get" /\ storage.last.tab = t
         /\ storage.written # None
         /\ storage.loadedSince[t]
         /\ storage.now - TheWritten(storage).at < EXPIRY_HOURS)
            => storage.last.value = Some(TheWritten(storage).value)

\* C23: more than 8 hours after a value was last persisted, get no longer
\* returns it in any tab, a tab open since before the expiry included
C23_ExpiresAfterEightHours ==
    (/\ storage.last.op = "get"
     /\ storage.written # None
     /\ storage.now - TheWritten(storage).at > EXPIRY_HOURS)
        => storage.last.value # Some(TheWritten(storage).value)

\* C24: once the update broadcast of a set has been delivered, get in every
\* other tab that was initialized returns the value set, whatever the value
C24_UpdateReachesOtherTabs ==
    \A t \in Tabs :
        (/\ storage.last.op = "get" /\ storage.last.tab = t
         /\ storage.written # None
         /\ storage.receiver[t]
         /\ storage.inbox[t] = <<>>)
            => storage.last.value = Some(TheWritten(storage).value)

\* C26: on an ARM machine a requested version below the minimum ARM-supported
\* version of the OS selects the Intel bundle of that OS, and a version at or
\* above it, or 'latest', the ARM bundle, in every integration
MinArmVersion(osName) ==
    IF osName = "mac" THEN MIN_SUPPORTED_BRIDGE_CLI_MAC_ARM_VERSION
    ELSE MIN_SUPPORTED_BRIDGE_CLI_LINUX_ARM_VERSION
C26_ArmBundleOnlyForSupportedVersions ==
    LET r == platform.request IN
    (/\ platform.selected # "none"
     /\ r.isARM
     /\ r.osName \in {"mac", "linux"}
     /\ r.version # NullVersion)
        => platform.selected =
              IF r.version = BRIDGE_CLI_LATEST_VERSION
                     \/ gte(r.version.triple, MinArmVersion(r.osName))
              THEN (IF r.osName = "mac" THEN "macos_arm" ELSE "linux_arm")
              ELSE (IF r.osName = "mac" THEN "macosx" ELSE "linux64")

\* C25: once invalidateSession was called, no user activity, visibility
\* change or window focus makes the session valid, arms a session timer or
\* invokes a warning or expired callback, until initializeSession
C25_InvalidatedSessionStaysQuiet ==
    [][(session.invalidated /\ session'.invalidated /\ session'.last.op = "event")
           => /\ session'.sessionInfo # None => ~Info(session').isValid
              /\ session'.warningTimeout \in {None, session.warningTimeout}
              /\ session'.expirationTimeout \in {None, session.expirationTimeout}
              /\ session'.checkInterval => session.checkInterval
              /\ session'.sessionInfo # None /\ Info(session').warningShown
                     => session.sessionInfo # None /\ Info(session).warningShown
              /\ session'.expiredNotified = session.expiredNotified]_vars

\* C28: isSessionValid returns true exactly when the manager is initialized,
\* sessionInfo.isValid holds and now < expiresAt; after it has returned false
\* it returns false until initializeSession, whatever happened in between
C28_IsSessionValidStaysFalse ==
    session.last.op = "isSessionValid"
        => /\ session.last.result = isSessionValidResult(session)
           /\ session.falseReturns > 0 => ~session.last.result
\* isSessionValid returns false again although the session was extended
\* since: expiresAt lies in the future and the expiration timer is armed
C28_Witness ==
    /\ session.last = [op |-> "isSessionValid", result |-> FALSE]
    /\ session.falseReturns = 2
    /\ session.extendedAfterFalse
    /\ session.isInitialized /\ session.sessionInfo # None
    /\ session.now < Info(session).expiresAt
    /\ session.expirationTimeout # None

\* C29: after the expired callbacks were notified, no later timer or event
\* notifies them again or schedules the forced redirect again, until
\* initializeSession
C29_ExpiredNotifiedOnce ==
    [][(session.expiredNotified > 0 /\ session'.last.op \in {"timer", "event"})
           => /\ session'.expiredNotified <= session.expiredNotified
              /\ session'.pendingRedirect => session.pendingRedirect]_vars
====
